---- MODULE Spec2Model ----
(***************************************************************************)
(* A model of green-fsm (src/src/main.js): the Fsm value, the crawl        *)
(* engine and the algebra built on it (union, intersection, concatenate,   *)
(* multiply, star).                                                        *)
(*                                                                         *)
(* Encoding of JavaScript values:                                          *)
(*  - a symbol of an alphabet is a string; the JS Symbol ANYTHING_ELSE is  *)
(*    the string "@@ANYTHING_ELSE";                                        *)
(*  - a state identifier is a string ("0", "1", ..., "A"); the JS Symbol   *)
(*    OBLIVION_STATE is the string "@@OBLIVION_STATE";                     *)
(*  - a row of a transition table (a JS object) is the sequence of its own *)
(*    <<key, value>> entries in Reflect.ownKeys order; a transition table  *)
(*    is a function from the state identifiers that are its keys to rows   *)
(*    (the identifiers used here are integer-like or the single name "A",  *)
(*    so the key order of a table is fixed by its key set);                *)
(*  - an Fsm object is a record of its fields plus `ref`, the identity of  *)
(*    the object (what === compares);                                      *)
(*  - JS arrays are sequences; array index i of the source is i + 1 here.  *)
(***************************************************************************)
EXTENDS Integers, Sequences, FiniteSets, TLC

\* src/src/main.js:6
ANYTHING_ELSE == "@@ANYTHING_ELSE"

\* src/src/main.js:9
OBLIVION_STATE == "@@OBLIVION_STATE"

(***************************************************************************)
(* Bounds of the model.                                                    *)
(***************************************************************************)
\* longest input handed to accepts
MaxLen == 2
\* longest list handed to union, intersection and concatenate
MaxFsms == 2
\* largest multiplier handed to multiply
MaxMultiplier == 3
\* most next() calls made on one enumerator
MaxNext == 5
\* most next() calls made on a second enumerator of the same automaton
MaxOther == 3
\* longest lookup list of a crawl whose follow never repeats a superstate
MaxLookup == 6

(***************************************************************************)
(* JavaScript objects used as tables.                                      *)
(***************************************************************************)
\* Reflect.ownKeys(row)
ownKeys(row) == [k \in 1..Len(row) |-> row[k][1]]

\* row has the own property key
HasOwn(row, key) == \E k \in 1..Len(row) : row[k][1] = key

\* the property names an object literal inherits from Object.prototype
\* (constructor, toString, valueOf, ...); the model keeps one of them
Inherited == {"constructor"}

\* what an inherited property holds: a function, never a state identifier
InheritedValue == "@@Object.prototype"

\* key in row: an own or an inherited property
In(row, key) == HasOwn(row, key) \/ key \in Inherited

\* row[key], for a key in row
Get(row, key) ==
  IF HasOwn(row, key)
    THEN row[CHOOSE k \in 1..Len(row) : row[k][1] = key][2]
    ELSE InheritedValue

\* row[key] = value: a new string key goes after the string keys and before
\* the Symbol keys (own-property order), an existing key keeps its place
Put(row, key, value) ==
  IF HasOwn(row, key)
    THEN [k \in 1..Len(row) |-> IF row[k][1] = key THEN <<key, value>> ELSE row[k]]
    ELSE IF key = ANYTHING_ELSE
      THEN Append(row, <<key, value>>)
      ELSE LET strs == SelectSeq(row, LAMBDA e : e[1] # ANYTHING_ELSE)
               syms == SelectSeq(row, LAMBDA e : e[1] = ANYTHING_ELSE)
           IN  Append(strs, <<key, value>>) \o syms

\* array.includes(x)
includes(array, x) == \E k \in 1..Len(array) : array[k] = x

\* a String(n) that numbers from one
String_fromOne(n) == ToString(n + 1)

\* String(n) for a non-negative integer n
String(n) == ToString(n)

(***************************************************************************)
(* class Fsm                                                               *)
(***************************************************************************)
RECURSIVE GatherRow(_, _, _, _)
\* the forEach over Reflect.ownKeys(map[state]) of the constructor
GatherRow(row, k, _alphabet, _states) ==
  IF k > Len(row) THEN [alphabet |-> _alphabet, states |-> _states]
  ELSE LET symbol == row[k][1]
           target == row[k][2]
           a2 == IF includes(_alphabet, symbol) THEN _alphabet ELSE Append(_alphabet, symbol)
           s2 == IF includes(_states, target) THEN _states ELSE Append(_states, target)
       IN  GatherRow(row, k + 1, a2, s2)

RECURSIVE Gather(_, _, _, _)
\* the while (i in _states) loop of the constructor
Gather(map, i, _alphabet, _states) ==
  IF i > Len(_states) THEN [alphabet |-> _alphabet, states |-> _states]
  ELSE LET state == _states[i]
       IN  IF state \in DOMAIN map
             THEN LET g == GatherRow(map[state], 1, _alphabet, _states)
                  IN  Gather(map, i + 1, g.alphabet, g.states)
             ELSE Gather(map, i + 1, _alphabet, _states)

\* new Fsm(finals, map, initial), as the object with identity ref
Fsm(ref, finals, map, initial) ==
  LET g == Gather(map, 1, <<>>, <<initial>>)
  IN  [ref |-> ref, alphabet |-> g.alphabet, states |-> g.states,
       finals |-> finals, map |-> map, initial |-> initial]

\* Fsm.prototype.hasFinalState
hasFinalState(fsm, state) == includes(fsm.finals, state)

\* a follow that goes back to the initial state from a state that has no row
follow_reviving(fsm, state, symbol) ==
  IF state \in DOMAIN fsm.map
    THEN IF In(fsm.map[state], symbol)
           THEN Get(fsm.map[state], symbol)
           ELSE IF In(fsm.map[state], ANYTHING_ELSE)
                  THEN Get(fsm.map[state], ANYTHING_ELSE)
                  ELSE OBLIVION_STATE
    ELSE fsm.initial

\* Fsm.prototype.follow (a state identifier of the model that is the name of
\* an inherited property has a row of its own in the table, so
\* `state in this.map` looks at the table's own keys)
follow(fsm, state, symbol) ==
  IF state \in DOMAIN fsm.map
    THEN IF In(fsm.map[state], symbol)
           THEN Get(fsm.map[state], symbol)
           ELSE IF In(fsm.map[state], ANYTHING_ELSE)
                  THEN Get(fsm.map[state], ANYTHING_ELSE)
                  ELSE OBLIVION_STATE
    ELSE OBLIVION_STATE

RECURSIVE FollowAll(_, _, _, _)
\* the for (const symbol of input) loop of accepts
FollowAll(fsm, state, input, k) ==
  IF k > Len(input) THEN state
  ELSE FollowAll(fsm, follow(fsm, state, input[k]), input, k + 1)

\* Fsm.prototype.accepts
accepts(fsm, input) == hasFinalState(fsm, FollowAll(fsm, fsm.initial, input, 1))

(***************************************************************************)
(* _getLiveStates and strings.  reverseMap is the set of its entries        *)
(* <<next, state>>, liveStates the set of its own keys; `x in liveStates`  *)
(* also holds for the name of an inherited property.  (An entry of         *)
(* reverseMap under such a name is written to the inherited object; scan   *)
(* is called on such a name only when it is a final state, so the entry is *)
(* not read for the automata here.)  The memo                              *)
(* this._liveStates holds what the first call computed from fields that    *)
(* never change.                                                           *)
(***************************************************************************)
\* the entries of reverseMap the row of one state adds
reverseRow(fsm, state) ==
  { <<follow(fsm, state, fsm.map[state][k][1]), state>> : k \in 1..Len(fsm.map[state]) }

\* reverseMap of _getLiveStates
reverseMap(fsm) ==
  UNION { reverseRow(fsm, fsm.states[j]) :
            j \in {q \in 1..Len(fsm.states) : fsm.states[q] \in DOMAIN fsm.map} }

\* state in liveStates: an own or an inherited property of the object
in_liveStates(liveStates, state) == state \in liveStates \/ state \in Inherited

\* a scan that marks a state live and looks no further back
scan_shallow(rev, liveState, liveStates) == liveStates \cup {liveState}

RECURSIVE scan(_, _, _)
RECURSIVE scanEach(_, _, _)
\* scan(liveState) of _getLiveStates, with liveStates as it stands
scan(rev, liveState, liveStates) ==
  scanEach(rev, {e[2] : e \in {q \in rev : q[1] = liveState}}, liveStates \cup {liveState})

\* the forEach of scan over Object.keys(reverseMap[liveState] || {})
scanEach(rev, prevs, liveStates) ==
  IF prevs = {} THEN liveStates
  ELSE LET prev == CHOOSE q \in prevs : TRUE
       IN  scanEach(rev, prevs \ {prev},
                    IF in_liveStates(liveStates, prev)
                      THEN liveStates ELSE scan(rev, prev, liveStates))

RECURSIVE scanFinals(_, _, _)
\* this.finals.forEach(scan)
scanFinals(fsm, k, liveStates) ==
  IF k > Len(fsm.finals) THEN liveStates
  ELSE scanFinals(fsm, k + 1, scan(reverseMap(fsm), fsm.finals[k], liveStates))

\* Fsm.prototype._getLiveStates
_getLiveStates(fsm) == scanFinals(fsm, 1, {})

\* a _hasLiveState that takes no state for live
_hasLiveState_never(fsm, state) == FALSE

\* Fsm.prototype._hasLiveState: state in this._getLiveStates()
_hasLiveState(fsm, state) == in_liveStates(_getLiveStates(fsm), state)

\* the forEach of next() over Reflect.ownKeys(this.map[cstate]), from the
\* k-th key on: the entries it pushes follow strs in the order of the keys
\* (this._getLiveStates() is the same object at every key)
strings_push(fsm, strs, cstring, cstate, k) ==
  LET liveStates == _getLiveStates(fsm)
      row == fsm.map[cstate]
      keys == SelectSeq([j \in 1..(Len(row) - k + 1) |-> row[j + k - 1][1]],
                        LAMBDA symbol : in_liveStates(liveStates, follow(fsm, cstate, symbol)))
  IN  strs \o [j \in 1..Len(keys) |->
                 [cstring |-> Append(cstring, keys[j]), cstate |-> follow(fsm, cstate, keys[j])]]

RECURSIVE strings_next_lifo(_, _, _)
\* next() taking the entry pushed last, not the entry at i (a stack for the
\* queue); it gives up after 4 * MaxNext entries
strings_next_lifo(fsm, strs, i) ==
  IF Len(strs) = 0 \/ i > 4 * MaxNext
    THEN [returned |-> TRUE, done |-> TRUE, value |-> <<>>, strings |-> strs, i |-> i + 1]
    ELSE LET string == strs[Len(strs)]
             rest == SubSeq(strs, 1, Len(strs) - 1)
             pushed == IF string.cstate \in DOMAIN fsm.map
                         THEN strings_push(fsm, rest, string.cstring, string.cstate, 1)
                         ELSE rest
         IN  IF hasFinalState(fsm, string.cstate)
               THEN [returned |-> TRUE, done |-> FALSE, value |-> string.cstring, strings |-> pushed, i |-> i + 1]
               ELSE strings_next_lifo(fsm, pushed, i + 1)

\* next() returning the string of the entry at i whether or not its state is
\* final
strings_next_any(fsm, strs, i) ==
  IF i + 1 >= Len(strs)
    THEN [returned |-> TRUE, done |-> TRUE, value |-> <<>>, strings |-> strs, i |-> i + 1]
    ELSE LET string == strs[i + 2]
             pushed == IF string.cstate \in DOMAIN fsm.map
                         THEN strings_push(fsm, strs, string.cstring, string.cstate, 1)
                         ELSE strs
         IN  [returned |-> TRUE, done |-> FALSE, value |-> string.cstring, strings |-> pushed, i |-> i + 1]

RECURSIVE strings_push_all(_, _, _, _, _)
\* a forEach that pushes every successor, live or not
strings_push_all(fsm, strs, cstring, cstate, k) ==
  IF k > Len(fsm.map[cstate]) THEN strs
  ELSE LET symbol == fsm.map[cstate][k][1]
           nstate == follow(fsm, cstate, symbol)
       IN  strings_push_all(fsm,
             Append(strs, [cstring |-> Append(cstring, symbol), cstate |-> nstate]),
             cstring, cstate, k + 1)

RECURSIVE strings_next_unpruned(_, _, _)
\* next() with the forEach that pushes every successor; it gives up after
\* 4 * MaxNext entries
strings_next_unpruned(fsm, strs, i) ==
  IF i + 1 >= Len(strs) \/ i > 4 * MaxNext
    THEN [returned |-> TRUE, done |-> TRUE, value |-> <<>>, strings |-> strs, i |-> i + 1]
    ELSE LET string == strs[i + 2]
             pushed == IF string.cstate \in DOMAIN fsm.map
                         THEN strings_push_all(fsm, strs, string.cstring, string.cstate, 1)
                         ELSE strs
         IN  IF hasFinalState(fsm, string.cstate)
               THEN [returned |-> TRUE, done |-> FALSE, value |-> string.cstring, strings |-> pushed, i |-> i + 1]
               ELSE strings_next_unpruned(fsm, pushed, i + 1)

\* the states the forEach of next() pushes from an entry with state cstate,
\* live being this._getLiveStates()
strings_pushed(fsm, live, cstate) ==
  IF cstate \in DOMAIN fsm.map
    THEN {t \in {follow(fsm, cstate, fsm.map[cstate][k][1]) : k \in 1..Len(fsm.map[cstate])} :
            in_liveStates(live, t)}
    ELSE {}

RECURSIVE strings_ahead(_, _, _)
\* the states of all the entries the while (true) loop of next() can come
\* to, given the states S of entries it comes to
strings_ahead(fsm, live, S) ==
  LET more == S \cup UNION {strings_pushed(fsm, live, s) : s \in S}
  IN  IF more = S THEN S ELSE strings_ahead(fsm, live, more)

\* the while (true) loop of next() leaves by neither return: no entry it can
\* come to has a final state, and the entries never run out because one of
\* them pushes, some passes later, an entry with its own state
strings_endless(fsm, strs, i) ==
  LET live == _getLiveStates(fsm)
      ahead == strings_ahead(fsm, live, {strs[k].cstate : k \in (i + 2)..Len(strs)})
  IN  /\ \A s \in ahead : ~hasFinalState(fsm, s)
      /\ \E s \in ahead : s \in strings_ahead(fsm, live, strings_pushed(fsm, live, s))

RECURSIVE strings_loop(_, _, _)
\* the while (true) loop of next(), from the locals strs and i (the index of
\* the source), when it leaves by a return: what it returns and the locals it
\* leaves
strings_loop(fsm, strs, i) ==
  IF i + 1 >= Len(strs)
    THEN [returned |-> TRUE, done |-> TRUE, value |-> <<>>, strings |-> strs, i |-> i + 1]
    ELSE LET string == strs[i + 2]
             pushed == IF string.cstate \in DOMAIN fsm.map
                         THEN strings_push(fsm, strs, string.cstring, string.cstate, 1)
                         ELSE strs
         IN  IF hasFinalState(fsm, string.cstate)
               THEN [returned |-> TRUE, done |-> FALSE, value |-> string.cstring, strings |-> pushed, i |-> i + 1]
               ELSE strings_loop(fsm, pushed, i + 1)

\* a next() that, called again after it returned done, starts over from the
\* head of the list
strings_next_rewinding(fsm, strs, i) ==
  IF strings_endless(fsm, strs, i)
    THEN [returned |-> FALSE, done |-> FALSE, value |-> <<>>, strings |-> strs, i |-> i]
    ELSE IF i >= Len(strs)
           THEN strings_loop(fsm, strs, -1)
           ELSE strings_loop(fsm, strs, i)

\* next() of the object strings() returns: the call returns what its loop
\* returns, or it does not return
strings_next(fsm, strs, i) ==
  IF strings_endless(fsm, strs, i)
    THEN [returned |-> FALSE, done |-> FALSE, value |-> <<>>, strings |-> strs, i |-> i]
    ELSE strings_loop(fsm, strs, i)

\* the object identities of the two module-level automata
NothingRef == 1
EpsilonRef == 2

\* the empty transition table {}
EmptyMap == [s \in {} |-> <<>>]

\* Fsm.NOTHING
NOTHING == Fsm(NothingRef, <<>>, EmptyMap, "A")

\* Fsm.EPSILON
EPSILON == Fsm(EpsilonRef, <<"A">>, EmptyMap, "A")


(***************************************************************************)
(* JSON.stringify, as crawl uses it to compare superstates.  Two values    *)
(* have the same JSON text iff the values below are equal: a property      *)
(* whose key is a Symbol is left out, a Symbol in an array becomes null,   *)
(* strings and numbers stand for themselves.                               *)
(***************************************************************************)
JSONNull == "@@null"

\* JSON of an array of symbols or state identifiers
JSONArray(array) ==
  [k \in 1..Len(array) |-> IF array[k] = ANYTHING_ELSE THEN JSONNull ELSE array[k]]

\* JSON of a row of a transition table
JSONRow(row) == SelectSeq(row, LAMBDA e : e[1] # ANYTHING_ELSE)

\* JSON of an Fsm object: its enumerable fields (_liveStates is undefined)
JSONFsm(fsm) ==
  [alphabet |-> JSONArray(fsm.alphabet), states |-> JSONArray(fsm.states),
   finals |-> JSONArray(fsm.finals),
   map |-> [s \in DOMAIN fsm.map |-> JSONRow(fsm.map[s])],
   initial |-> fsm.initial]

(***************************************************************************)
(* The result of a follow() handed to crawl: OBLIVION_STATE or a           *)
(* superstate x, written Oblivion and Super(x).                            *)
(***************************************************************************)
Oblivion == <<>>
Super(x) == <<x>>

RECURSIVE unifyFrom(_, _, _)
\* the outer forEach of unifyAlphabets, from the k-th alphabet on
unifyFrom(alphabets, k, unified) ==
  IF k > Len(alphabets) THEN unified
  ELSE LET more == SelectSeq(alphabets[k], LAMBDA symbol : ~includes(unified, symbol))
       IN  unifyFrom(alphabets, k + 1, unified \o more)

\* unifyAlphabets (every alphabet of an Fsm is duplicate-free)
unifyAlphabets(alphabets) == unifyFrom(alphabets, 1, <<>>)

\* fsms.map(fsm => fsm.alphabet)
Alphabets(fsms) == [k \in 1..Len(fsms) |-> fsms[k].alphabet]

(***************************************************************************)
(* parallel, union, intersection.  A superstate is a list of pairs         *)
(* {fsm, substate}; pair.fsm = k stands for a reference to fsms[k].        *)
(***************************************************************************)
\* initial of parallel
parallel_initial(fsms) ==
  [k \in 1..Len(fsms) |-> [fsm |-> k, substate |-> fsms[k].initial]]

\* a follow of parallel that gives up the whole superstate when one pair
\* goes to oblivion
parallel_follow_all_or_nothing(fsms, state, symbol) ==
  LET mapped == [k \in 1..Len(state) |->
                   [fsm |-> state[k].fsm,
                    substate |-> follow(fsms[state[k].fsm], state[k].substate, symbol)]]
      next == SelectSeq(mapped, LAMBDA pair : pair.substate # OBLIVION_STATE)
  IN  IF Len(next) < Len(state) \/ Len(next) = 0 THEN Oblivion ELSE Super(next)

\* follow of parallel
parallel_follow(fsms, state, symbol) ==
  LET mapped == [k \in 1..Len(state) |->
                   [fsm |-> state[k].fsm,
                    substate |-> follow(fsms[state[k].fsm], state[k].substate, symbol)]]
      next == SelectSeq(mapped, LAMBDA pair : pair.substate # OBLIVION_STATE)
  IN  IF Len(next) = 0 THEN Oblivion ELSE Super(next)

\* isFinal of union
union_isFinal(fsms, state) ==
  \E k \in 1..Len(state) : hasFinalState(fsms[state[k].fsm], state[k].substate)

\* intersection's isFinal asking only the pairs still in the list
intersection_isFinal_every(fsms, state) ==
  \A k \in 1..Len(state) : hasFinalState(fsms[state[k].fsm], state[k].substate)

\* isFinal of intersection
intersection_isFinal(fsms, state) ==
  \A j \in 1..Len(fsms) :
    \E k \in 1..Len(state) :
      /\ fsms[state[k].fsm].ref = fsms[j].ref
      /\ hasFinalState(fsms[state[k].fsm], state[k].substate)

\* JSON of a superstate of parallel
parallel_JSON(fsms, state) ==
  [k \in 1..Len(state) |->
     [fsm |-> JSONFsm(fsms[state[k].fsm]), substate |-> state[k].substate]]

(***************************************************************************)
(* concatenate.  A superstate is a list of pairs {i, substate}.            *)
(***************************************************************************)
RECURSIVE _connectAll(_, _, _)
\* _connectAll
_connectAll(fsms, i, substate) ==
  IF i < Len(fsms) /\ hasFinalState(fsms[i], substate)
    THEN <<[i |-> i, substate |-> substate]>> \o _connectAll(fsms, i + 1, fsms[i + 1].initial)
    ELSE <<[i |-> i, substate |-> substate]>>

\* initial of concatenate
concatenate_initial(fsms) == _connectAll(fsms, 1, fsms[1].initial)

\* isFinal of concatenate
concatenate_isFinal(fsms, state) ==
  \E k \in 1..Len(state) :
    /\ state[k].i = Len(fsms)
    /\ hasFinalState(fsms[state[k].i], state[k].substate)

\* a test that finds no entry: every entry is pushed
concatenate_seen_never(next, i, nextsubstate) == FALSE

\* the test that guards next.push(nextsubstate) in follow of concatenate
concatenate_seen(next, i, nextsubstate) ==
  \E k \in 1..Len(next) : next[k].i = i /\ next[k].substate = nextsubstate.substate

RECURSIVE concatenate_push(_, _, _, _)
\* the inner forEach of follow of concatenate, over _connectAll's result
concatenate_push(next, i, found, k) ==
  IF k > Len(found) THEN next
  ELSE concatenate_push(
         IF concatenate_seen(next, i, found[k]) THEN next ELSE Append(next, found[k]),
         i, found, k + 1)

RECURSIVE concatenate_each(_, _, _, _, _)
\* the outer forEach of follow of concatenate, over current
concatenate_each(fsms, current, symbol, k, next) ==
  IF k > Len(current) THEN next
  ELSE LET i == current[k].i
           found == _connectAll(fsms, i, follow(fsms[i], current[k].substate, symbol))
       IN  concatenate_each(fsms, current, symbol, k + 1, concatenate_push(next, i, found, 1))

\* follow of concatenate
concatenate_follow(fsms, current, symbol) ==
  LET next == SelectSeq(concatenate_each(fsms, current, symbol, 1, <<>>),
                        LAMBDA pair : pair.substate # OBLIVION_STATE)
  IN  IF Len(next) = 0 THEN Oblivion ELSE Super(next)

(***************************************************************************)
(* star.  A superstate is a list of substates of the one automaton.        *)
(***************************************************************************)
\* initial of star
star_initial(fsm) == <<fsm.initial>>

\* the property key the array `initial` turns into when follow() uses it as
\* a state: String([x]) is x for a string x
ToPropertyKey(array) == array[1]

RECURSIVE star_each_naive(_, _, _, _, _)
\* star's forEach without the transitions from the initial state
star_each_naive(fsm, state, symbol, k, next) ==
  IF k > Len(state) THEN next
  ELSE LET nextsubstate == follow(fsm, state[k], symbol)
       IN  star_each_naive(fsm, state, symbol, k + 1,
             IF includes(next, nextsubstate) THEN next ELSE Append(next, nextsubstate))

RECURSIVE star_each(_, _, _, _, _)
\* the forEach of follow of star, over state
star_each(fsm, state, symbol, k, next) ==
  IF k > Len(state) THEN next
  ELSE LET substate == state[k]
           nextsubstate == follow(fsm, substate, symbol)
           n1 == IF includes(next, nextsubstate) THEN next ELSE Append(next, nextsubstate)
           nextsubstate2 == follow(fsm, ToPropertyKey(star_initial(fsm)), symbol)
           n2 == IF hasFinalState(fsm, substate) /\ ~includes(n1, nextsubstate2)
                   THEN Append(n1, nextsubstate2) ELSE n1
       IN  star_each(fsm, state, symbol, k + 1, n2)

\* follow of star
star_follow(fsm, state, symbol) ==
  LET next == SelectSeq(star_each(fsm, state, symbol, 1, <<>>),
                        LAMBDA substate : substate # OBLIVION_STATE)
  IN  IF Len(next) = 0 THEN Oblivion ELSE Super(next)

\* isFinal of star
star_isFinal(fsm, state) == \E k \in 1..Len(state) : hasFinalState(fsm, state[k])


(***************************************************************************)
(* crawl called by a user of the module.  With the methods of an automaton *)
(* a superstate is one of its states; the "evil version of follow()" of    *)
(* crawl's comment counts: a superstate is a number, its successor the     *)
(* next number.                                                            *)
(***************************************************************************)
\* (state, symbol) => fsm.follow(state, symbol)
fsm_follow(fsm, state, symbol) ==
  LET next == follow(fsm, state, symbol)
  IN  IF next = OBLIVION_STATE THEN Oblivion ELSE Super(next)

\* state => fsm.hasFinalState(state)
fsm_isFinal(fsm, state) == hasFinalState(fsm, state)

\* (state, symbol) => state + 1
evil_follow(state, symbol) == Super(state + 1)

\* state => false
evil_isFinal(state) == FALSE

(***************************************************************************)
(* crawl: one pass of its while loop.                                      *)
(***************************************************************************)
\* isFinal(blah), for the closure the crawl was given
crawl_isFinal(kind, fsms, blah) ==
  CASE kind = "union" -> union_isFinal(fsms, blah)
    [] kind = "intersection" -> intersection_isFinal(fsms, blah)
    [] kind = "concatenate" -> concatenate_isFinal(fsms, blah)
    [] kind = "star" -> star_isFinal(fsms[1], blah)
    [] kind = "fsm" -> fsm_isFinal(fsms[1], blah)
    [] kind = "evil" -> evil_isFinal(blah)

\* follow(blah, symbol), for the closure the crawl was given
crawl_follow(kind, fsms, blah, symbol) ==
  CASE kind = "union" -> parallel_follow(fsms, blah, symbol)
    [] kind = "intersection" -> parallel_follow(fsms, blah, symbol)
    [] kind = "concatenate" -> concatenate_follow(fsms, blah, symbol)
    [] kind = "star" -> star_follow(fsms[1], blah, symbol)
    [] kind = "fsm" -> fsm_follow(fsms[1], blah, symbol)
    [] kind = "evil" -> evil_follow(blah, symbol)

\* JSON.stringify(x) for a superstate x
JSONstringify(kind, fsms, x) ==
  IF kind \in {"union", "intersection"} THEN parallel_JSON(fsms, x) ELSE x

\* a findIndex that finds the first entry of the list, whatever is looked for
findIndex_first(kind, fsms, lookup, next) == IF Len(lookup) = 0 THEN 0 ELSE 1

\* lookup.findIndex(x => JSON.stringify(x) === JSON.stringify(next)), as a
\* position of lookup, 0 when there is none
findIndex(kind, fsms, lookup, next) ==
  LET json == JSONstringify(kind, fsms, next)
      same == {j \in 1..Len(lookup) : JSONstringify(kind, fsms, lookup[j]) = json}
  IN  IF same = {} THEN 0 ELSE CHOOSE j \in same : \A j2 \in same : j <= j2

\* a forEach that takes every follow() for oblivion
crawl_row_none(kind, fsms, alphabet, k, blah, lookup, row) ==
  [lookup |-> lookup, row |-> row]

RECURSIVE crawl_row(_, _, _, _, _, _, _)
\* the alphabet.forEach of crawl for the superstate blah, from the k-th
\* symbol on: the lookup list and the row of the table it leaves
crawl_row(kind, fsms, alphabet, k, blah, lookup, row) ==
  IF k > Len(alphabet) THEN [lookup |-> lookup, row |-> row]
  ELSE LET symbol == alphabet[k]
           next == crawl_follow(kind, fsms, blah, symbol)
       IN  IF next = Oblivion
             THEN crawl_row(kind, fsms, alphabet, k + 1, blah, lookup, row)
             ELSE LET at == findIndex(kind, fsms, lookup, next[1])
                      state2 == IF at = 0 THEN Len(lookup) ELSE at - 1
                      lookup2 == IF at = 0 THEN Append(lookup, next[1]) ELSE lookup
                  IN  crawl_row(kind, fsms, alphabet, k + 1, blah, lookup2,
                                Put(row, symbol, String(state2)))

(***************************************************************************)
(* The automata the callers build.                                         *)
(***************************************************************************)
\* a transition table with keys "0" and "1"
Map2(row0, row1) == [s \in {"0", "1"} |-> IF s = "0" THEN row0 ELSE row1]

\* a transition table with the key "0"
Map1(row0) == [s \in {"0"} |-> row0]

\* the arguments of a constructor call
Args(finals, map, initial) == [finals |-> finals, map |-> map, initial |-> initial]

\* the rows {a: s, [ANYTHING_ELSE]: t}, either key optional
LitRows ==
  { SelectSeq(<<<<"a", t[1]>>, <<ANYTHING_ELSE, t[2]>>>>, LAMBDA e : e[2] # "-") :
      t \in {"-", "0", "1"} \X {"-", "0", "1"} }

\* every table with a row of LitRows for "0" and, where that row leads to "1",
\* every table with a row for "1" too
LitMaps ==
  {Map1(r) : r \in LitRows}
    \cup {Map2(r[1], r[2]) : r \in {q \in LitRows \X LitRows : \E k \in 1..Len(q[1]) : q[1][k][2] = "1"}}

\* every automaton of at most two states over a and the wildcard (a declared
\* final state need not be a state of the table)
Literals ==
  { Args(f, m, "0") : f \in {<<>>, <<"0">>, <<"1">>, <<"0", "1">>}, m \in LitMaps }

\* the arguments that yield the epsilon and the nothing automaton: a caller
\* takes these two from Fsm.EPSILON and Fsm.NOTHING
EpsilonArgs == Args(<<"A">>, EmptyMap, "A")
NothingArgs == Args(<<>>, EmptyMap, "A")

\* the automata that lists of two or more are made of
Pool ==
  { EpsilonArgs, NothingArgs,
    \* a and b (README, test fixtures)
    Args(<<"1">>, Map1(<<<<"a", "1">>>>), "0"),
    Args(<<"1">>, Map1(<<<<"b", "1">>>>), "0"),
    \* a*
    Args(<<"0">>, Map1(<<<<"a", "0">>>>), "0"),
    \* ab* (test 'bug 28')
    Args(<<"1">>, Map2(<<<<"a", "1">>>>, <<<<"b", "1">>>>), "0"),
    \* b, then anything: the initial state is "1"
    Args(<<"0">>, Map2(<<<<"a", "0">>, <<"b", "0">>, <<ANYTHING_ELSE, "0">>>>,
                       <<<<"b", "0">>>>), "1"),
    \* two automata that differ in their wildcard transitions only
    Args(<<"1">>, Map2(<<<<"a", "1">>, <<ANYTHING_ELSE, "0">>>>, <<>>), "0"),
    Args(<<"1">>, Map2(<<<<"a", "1">>>>, <<<<ANYTHING_ELSE, "1">>>>), "0") }

\* a*ba, as test 'advanced' of star builds it
AStarBA ==
  Args(<<"2">>,
       [s \in {"0", "1", "2", "oblivion"} |->
          CASE s = "0" -> <<<<"a", "0">>, <<"b", "1">>>>
            [] s = "1" -> <<<<"a", "2">>, <<"b", "oblivion">>>>
            [] OTHER -> <<<<"a", "oblivion">>, <<"b", "oblivion">>>>],
       "0")

\* a and ba: accepted inputs of two lengths, the longer one down the row's
\* last key
ShortLong ==
  Args(<<"1">>,
       [s \in {"0", "2"} |->
          IF s = "0" THEN <<<<"a", "1">>, <<"b", "2">>>> ELSE <<<<"a", "1">>>>],
       "0")

\* a and aa: two final states, neither of them the initial state
AOrAA ==
  Args(<<"1", "2">>,
       [s \in {"0", "1"} |-> IF s = "0" THEN <<<<"a", "1">>>> ELSE <<<<"a", "2">>>>],
       "0")

\* a state with the name of an inherited property, on a cycle that leads to
\* no final state: the language is { b }
DeadLoop ==
  Args(<<"1">>,
       [s \in {"0", "constructor"} |->
          IF s = "0" THEN <<<<"a", "constructor">>, <<"b", "1">>>>
                     ELSE <<<<"a", "constructor">>>>],
       "0")

\* a state with the name of an inherited property, on the way to the final
\* state
LiveCtor ==
  Args(<<"1">>,
       [s \in {"0", "constructor"} |->
          IF s = "0" THEN <<<<"a", "constructor">>>> ELSE <<<<"a", "1">>>>],
       "0")

\* automata with more than two states, or with a state of such a name
Fixtures == {AStarBA, ShortLong, AOrAA, DeadLoop, LiveCtor}

\* the object a constructor call with arguments t yields, as the k-th
\* automaton the caller holds
Build(k, t) ==
  IF t = EpsilonArgs THEN EPSILON
  ELSE IF t = NothingArgs THEN NOTHING
  ELSE Fsm(EpsilonRef + k, t.finals, t.map, t.initial)

\* longer inputs: a run of a for multiply, the inputs of test 'advanced' of
\* star, and an input that takes two automata of one JSON text apart and
\* together again
ScenarioInputs ==
  { <<"a", "a", "a">>, <<"a", "b", "a">>, <<"a", "a", "b", "a">>, <<"a", "a", "b", "b">>,
    <<ANYTHING_ELSE, "a", "a">> }

\* the symbols of inputs
InputSymbols == {"a", "b", ANYTHING_ELSE} \cup Inherited

\* the inputs handed to accepts
Inputs ==
  UNION {[1..n -> InputSymbols] : n \in 0..MaxLen} \cup ScenarioInputs


(***************************************************************************)
(* The state: the automata the caller holds, the algebra call in progress  *)
(* with the locals of its crawl, what it returned, and the last accepts()  *)
(* call.                                                                   *)
(***************************************************************************)
VARIABLES
  args,        \* the automata the caller has built, in order
  pc,          \* "idle", "crawl" (a crawl is running), "done", "threw"
  op,          \* the entry point called: "none", "union", ...
  multiplier,  \* the multiplier handed to multiply
  kind,        \* whose isFinal and follow the running crawl was given
  fsms,        \* the list those closures captured
  alphabet,    \* crawl's parameter
  lookup,      \* crawl's local
  finals,      \* crawl's local
  map,         \* crawl's local
  state,       \* crawl's local (the index of the source)
  ret,         \* <<f>> once the entry point has returned f, else <<>>
  on,          \* the automaton accepts() was last called on: 0 for none,
               \* k for args[k], -1 for the returned automaton
  input,       \* the input of that call (a run follows one accepts() call:
               \* accepts changes no state, so its calls are independent)
  answer,      \* what it returned
  gen,         \* the automaton strings() was called on: 0 for none, k for
               \* args[k], -1 for the returned automaton
  strings,     \* the enumerator's local list
  strings_i,   \* the enumerator's local i
  calls,       \* the number of next() calls made
  yielded,     \* the values those calls returned with done: false, in order
  last,        \* what the last call returned: "none", "value" or "done";
               \* "running" when it has not returned
  other        \* <<e>> once strings() was called a second time on the same
               \* automaton, else <<>>: e holds the second enumerator's
               \* strings, i, calls, yielded and last

vars == <<args, pc, op, multiplier, kind, fsms, alphabet, lookup, finals, map,
          state, ret, on, input, answer, gen, strings, strings_i, calls, yielded, last,
          other>>

crawlVars == <<kind, fsms, alphabet, lookup, finals, map, state>>
acceptVars == <<on, input, answer>>
enumVars == <<gen, strings, strings_i, calls, yielded, last, other>>

Init ==
  /\ args = <<>>
  /\ pc = "idle"
  /\ op = "none"
  /\ multiplier = 0
  /\ kind = "none"
  /\ fsms = <<>>
  /\ alphabet = <<>>
  /\ lookup = <<>>
  /\ finals = <<>>
  /\ map = EmptyMap
  /\ state = 0
  /\ ret = <<>>
  /\ on = 0
  /\ gen = 0
  /\ input = <<>>
  /\ answer = FALSE
  /\ gen = 0
  /\ strings = <<>>
  /\ strings_i = -1
  /\ calls = 0
  /\ yielded = <<>>
  /\ last = "none"
  /\ other = <<>>

\* the caller builds one more automaton: new Fsm(finals, map, initial)
New(t) ==
  /\ pc = "idle"
  /\ on = 0
  /\ gen = 0
  /\ Len(args) < MaxFsms
  /\ \A k \in 1..Len(args) : \E p \in Pool : args[k] = Build(k, p)
  /\ Len(args) > 0 => t \in Pool
  /\ args' = Append(args, Build(Len(args) + 1, t))
  /\ UNCHANGED <<pc, op, multiplier, ret>>
  /\ UNCHANGED crawlVars
  /\ UNCHANGED acceptVars
  /\ UNCHANGED enumVars

\* the call crawl(alphabet, initial, isFinal, follow), up to its loop
StartCrawl(k, list, alph, initial) ==
  /\ kind' = k
  /\ fsms' = list
  /\ alphabet' = alph
  /\ lookup' = <<initial>>
  /\ finals' = <<>>
  /\ map' = EmptyMap
  /\ state' = 0
  /\ pc' = "crawl"

\* the call ends by throwing
Throw ==
  /\ pc' = "threw"
  /\ UNCHANGED crawlVars

\* a union whose unifyAlphabets collects the symbols in the inputs' own
\* alphabet arrays: every input is left with the unified alphabet
Union_unifying_in_place ==
  /\ pc = "idle"
  /\ on = 0
  /\ gen = 0
  /\ op' = "union"
  /\ StartCrawl("union", args, unifyAlphabets(Alphabets(args)), parallel_initial(args))
  /\ args' = [k \in 1..Len(args) |->
                [args[k] EXCEPT !.alphabet = unifyAlphabets(Alphabets(args))]]
  /\ UNCHANGED <<multiplier, ret>>
  /\ UNCHANGED acceptVars
  /\ UNCHANGED enumVars

\* union(args)
Union ==
  /\ pc = "idle"
  /\ on = 0
  /\ gen = 0
  /\ op' = "union"
  /\ StartCrawl("union", args, unifyAlphabets(Alphabets(args)), parallel_initial(args))
  /\ UNCHANGED <<args, multiplier, ret>>
  /\ UNCHANGED acceptVars
  /\ UNCHANGED enumVars

\* intersection(args)
Intersection ==
  /\ pc = "idle"
  /\ on = 0
  /\ gen = 0
  /\ op' = "intersection"
  /\ StartCrawl("intersection", args, unifyAlphabets(Alphabets(args)),
                parallel_initial(args))
  /\ UNCHANGED <<args, multiplier, ret>>
  /\ UNCHANGED acceptVars
  /\ UNCHANGED enumVars

\* concatenate(list): fsms[0].initial of an empty list is a TypeError
concatenate(list) ==
  IF Len(list) = 0
    THEN Throw
    ELSE StartCrawl("concatenate", list, unifyAlphabets(Alphabets(list)),
                    concatenate_initial(list))

\* concatenate(args)
Concatenate ==
  /\ pc = "idle"
  /\ on = 0
  /\ gen = 0
  /\ op' = "concatenate"
  /\ concatenate(args)
  /\ UNCHANGED <<args, multiplier, ret>>
  /\ UNCHANGED acceptVars
  /\ UNCHANGED enumVars

\* Array(n).fill(x) for an integer n >= 0
fill(n, x) == [k \in 1..n |-> x]

\* multiply returning its argument for the multiplier 0
multiply_zero_is_x(x, n) ==
  IF n = 0
    THEN /\ ret' = <<x>>
         /\ pc' = "done"
         /\ UNCHANGED crawlVars
    ELSE /\ ret' = ret
         /\ IF n < 0 THEN Throw ELSE concatenate(fill(n, x))

\* multiply taking every multiplier below 1 for 0
multiply_clamped(x, n) ==
  IF n <= 0
    THEN /\ ret' = <<EPSILON>>
         /\ pc' = "done"
         /\ UNCHANGED crawlVars
    ELSE /\ ret' = ret
         /\ concatenate(fill(n, x))

\* multiply(x, n): Array(n) of a negative n is a RangeError
multiply(x, n) ==
  IF n = 0
    THEN /\ ret' = <<EPSILON>>
         /\ pc' = "done"
         /\ UNCHANGED crawlVars
    ELSE /\ ret' = ret
         /\ IF n < 0 THEN Throw ELSE concatenate(fill(n, x))

\* multiply(args[1], n)
Multiply(n) ==
  /\ pc = "idle"
  /\ on = 0
  /\ gen = 0
  /\ Len(args) = 1
  /\ op' = "multiply"
  /\ multiplier' = n
  /\ multiply(args[1], n)
  /\ UNCHANGED args
  /\ UNCHANGED acceptVars
  /\ UNCHANGED enumVars

\* star(args[1]), up to the loop of its crawl
Star ==
  /\ pc = "idle"
  /\ on = 0
  /\ gen = 0
  /\ Len(args) = 1
  /\ op' = "star"
  /\ StartCrawl("star", args, args[1].alphabet, star_initial(args[1]))
  /\ UNCHANGED <<args, multiplier, ret>>
  /\ UNCHANGED acceptVars
  /\ UNCHANGED enumVars

\* crawl(args[1].alphabet, args[1].initial, isFinal, follow) with the
\* methods of args[1] for isFinal and follow
Crawl ==
  /\ pc = "idle"
  /\ on = 0
  /\ gen = 0
  /\ Len(args) = 1
  /\ op' = "crawl"
  /\ StartCrawl("fsm", args, args[1].alphabet, args[1].initial)
  /\ UNCHANGED <<args, multiplier, ret>>
  /\ UNCHANGED acceptVars
  /\ UNCHANGED enumVars

\* crawl(['a'], 0, isFinal, follow) with a follow that never repeats a
\* superstate
CrawlEvil ==
  /\ pc = "idle"
  /\ on = 0
  /\ gen = 0
  /\ Len(args) = 0
  /\ op' = "crawl"
  /\ StartCrawl("evil", args, <<"a">>, 0)
  /\ UNCHANGED <<args, multiplier, ret>>
  /\ UNCHANGED acceptVars
  /\ UNCHANGED enumVars

\* one pass of the while loop of crawl (the model stops a crawl whose lookup
\* list has reached MaxLookup without repeating a superstate)
CrawlStep ==
  /\ pc = "crawl"
  /\ state < Len(lookup)
  /\ kind = "evil" => Len(lookup) < MaxLookup
  /\ LET blah == lookup[state + 1]
         r == crawl_row(kind, fsms, alphabet, 1, blah, lookup, <<>>)
     IN  /\ finals' = IF crawl_isFinal(kind, fsms, blah)
                        THEN Append(finals, String(state)) ELSE finals
         /\ map' = [s \in DOMAIN map \cup {String(state)} |->
                      IF s = String(state) THEN r.row ELSE map[s]]
         /\ lookup' = r.lookup
  /\ state' = state + 1
  /\ UNCHANGED <<args, pc, op, multiplier, kind, fsms, alphabet, ret>>
  /\ UNCHANGED acceptVars
  /\ UNCHANGED enumVars

\* the n-th automaton the running call builds
Crawled(n) == Fsm(EpsilonRef + Len(args) + n, finals, map, "0")

\* the loop of crawl is over: return new Fsm(finals, map, '0'), which is
\* what union, intersection, concatenate and multiply return
CrawlReturn ==
  /\ pc = "crawl"
  /\ state >= Len(lookup)
  /\ ~(op = "star" /\ kind = "star")
  /\ ret' = <<Crawled(IF op = "star" THEN 2 ELSE 1)>>
  /\ pc' = "done"
  /\ UNCHANGED <<args, op, multiplier>>
  /\ UNCHANGED crawlVars
  /\ UNCHANGED acceptVars
  /\ UNCHANGED enumVars

\* the crawl of star is over: star goes on with
\* union([Fsm.EPSILON, crawl(...)])
StarUnion ==
  /\ pc = "crawl"
  /\ state >= Len(lookup)
  /\ op = "star" /\ kind = "star"
  /\ LET list == <<EPSILON, Crawled(1)>>
     IN  StartCrawl("union", list, unifyAlphabets(Alphabets(list)), parallel_initial(list))
  /\ UNCHANGED <<args, op, multiplier, ret>>
  /\ UNCHANGED acceptVars
  /\ UNCHANGED enumVars

\* args[k].accepts(in), in a run that constructs one automaton and makes no
\* algebra call
AcceptsArg(k, in) ==
  /\ pc = "idle"
  /\ on = 0
  /\ gen = 0
  /\ Len(args) = 1
  /\ k \in 1..Len(args)
  /\ on' = k
  /\ input' = in
  /\ answer' = accepts(args[k], in)
  /\ UNCHANGED <<args, pc, op, multiplier, ret>>
  /\ UNCHANGED crawlVars
  /\ UNCHANGED enumVars

\* accepts(in) on the automaton the algebra call returned
AcceptsRet(in) ==
  /\ pc = "done"
  /\ on = 0
  /\ gen = 0
  /\ on' = -1
  /\ input' = in
  /\ answer' = accepts(ret[1], in)
  /\ UNCHANGED <<args, pc, op, multiplier, ret>>
  /\ UNCHANGED crawlVars
  /\ UNCHANGED enumVars

\* locals that are one pair for all the enumerators of an automaton
strings_locals_shared(mine, theirs) == theirs

\* the locals `strings` and `i` a next() works on: those of the strings()
\* call that returned it
strings_locals(mine, theirs) == mine

\* an enumerator that starts from an empty list
strings_initial_empty(fsm) == <<>>

\* the initial value of the enumerator's list
strings_initial(fsm) == <<[cstring |-> <<>>, cstate |-> fsm.initial]>>

\* args[1].strings(), in a run that constructs one automaton and makes no
\* algebra call
StringsArg ==
  /\ pc = "idle"
  /\ on = 0
  /\ gen = 0
  /\ Len(args) = 1
  /\ gen' = 1
  /\ strings' = strings_initial(args[1])
  /\ strings_i' = -1
  /\ UNCHANGED <<args, pc, op, multiplier, ret, calls, yielded, last, other>>
  /\ UNCHANGED crawlVars
  /\ UNCHANGED acceptVars

\* strings() on the automaton the algebra call returned
StringsRet ==
  /\ pc = "done"
  /\ on = 0
  /\ gen = 0
  /\ gen' = -1
  /\ strings' = strings_initial(ret[1])
  /\ strings_i' = -1
  /\ UNCHANGED <<args, pc, op, multiplier, ret, calls, yielded, last, other>>
  /\ UNCHANGED crawlVars
  /\ UNCHANGED acceptVars

\* the automaton strings() was called on
Gen == IF gen = -1 THEN ret[1] ELSE args[gen]

\* one call of next() on the enumerator; after a call that does not return
\* there is no other
NextCall ==
  /\ gen # 0
  /\ calls < MaxNext
  /\ last # "running"
  /\ LET r == strings_next(Gen, strings, strings_i)
     IN  /\ strings' = r.strings
         /\ strings_i' = r.i
         /\ yielded' = IF r.returned /\ ~r.done THEN Append(yielded, r.value) ELSE yielded
         /\ last' = IF ~r.returned THEN "running" ELSE IF r.done THEN "done" ELSE "value"
  /\ calls' = calls + 1
  /\ UNCHANGED <<args, pc, op, multiplier, ret, gen, other>>
  /\ UNCHANGED crawlVars
  /\ UNCHANGED acceptVars

\* a second strings() call on the automaton the first was called on, at any
\* time after it, in a run that makes no algebra call
StringsAgain ==
  /\ gen = 1
  /\ other = <<>>
  /\ other' = <<[strings |-> strings_initial(Gen), i |-> -1, calls |-> 0,
                 yielded |-> <<>>, last |-> "none"]>>
  /\ UNCHANGED <<args, pc, op, multiplier, ret, gen, strings, strings_i, calls, yielded, last>>
  /\ UNCHANGED crawlVars
  /\ UNCHANGED acceptVars

\* one call of next() on the second enumerator
NextCallOther ==
  /\ other # <<>>
  /\ other[1].calls < MaxOther
  /\ other[1].last # "running"
  /\ LET mine == strings_locals([strings |-> other[1].strings, i |-> other[1].i],
                                [strings |-> strings, i |-> strings_i])
         r == strings_next(Gen, mine.strings, mine.i)
     IN  other' = <<[strings |-> r.strings, i |-> r.i, calls |-> other[1].calls + 1,
                     yielded |-> IF r.returned /\ ~r.done
                                   THEN Append(other[1].yielded, r.value)
                                   ELSE other[1].yielded,
                     last |-> IF ~r.returned THEN "running"
                              ELSE IF r.done THEN "done" ELSE "value"]>>
  /\ UNCHANGED <<args, pc, op, multiplier, ret, gen, strings, strings_i, calls, yielded, last>>
  /\ UNCHANGED crawlVars
  /\ UNCHANGED acceptVars

Next ==
  \/ \E t \in Literals \cup Fixtures \cup Pool : New(t)
  \/ Union
  \/ Intersection
  \/ Concatenate
  \/ \E n \in -1..MaxMultiplier : Multiply(n)
  \/ Star
  \/ Crawl
  \/ CrawlEvil
  \/ CrawlStep
  \/ CrawlReturn
  \/ StarUnion
  \/ \E k \in 1..MaxFsms, in \in Inputs : AcceptsArg(k, in)
  \/ \E in \in Inputs : AcceptsRet(in)
  \/ StringsArg
  \/ StringsRet
  \/ NextCall
  \/ StringsAgain
  \/ NextCallOther

Spec == Init /\ [][Next]_vars

\* a caller that builds automata and then either takes an enumerator and
\* calls next() or makes one call of the algebra or of crawl
FairNext ==
  \/ \E t \in Literals \cup Fixtures \cup Pool : New(t)
  \/ StringsArg
  \/ NextCall
  \/ Union
  \/ Intersection
  \/ Concatenate
  \/ \E n \in -1..MaxMultiplier : Multiply(n)
  \/ Star
  \/ Crawl
  \/ CrawlEvil
  \/ CrawlStep
  \/ CrawlReturn
  \/ StarUnion

\* a step that is a next() call: NextCall is the one action that changes
\* calls, and it can be taken whenever its guard holds
Called == gen # 0 /\ calls < MaxNext /\ last # "running" /\ calls' = calls + 1

\* a step that is a pass of crawl's loop: CrawlStep is the one action that
\* adds one to state, and it can be taken whenever its guard holds
Stepped ==
  /\ pc = "crawl"
  /\ state < Len(lookup)
  /\ kind = "evil" => Len(lookup) < MaxLookup
  /\ state' = state + 1

\* a step that is the return of a call: CrawlReturn
Finished ==
  /\ pc = "crawl"
  /\ state >= Len(lookup)
  /\ ~(op = "star" /\ kind = "star")
  /\ pc' = "done"

\* a step that takes star from its crawl to its union: StarUnion
WentOn ==
  /\ pc = "crawl"
  /\ state >= Len(lookup)
  /\ op = "star" /\ kind = "star"
  /\ kind' = "union"

\* the caller goes on calling next() for as long as the model lets it, and a
\* call that is running goes on running
FairSpec ==
  /\ Init /\ [][FairNext]_vars
  /\ WF_calls(Called)
  /\ WF_state(Stepped) /\ WF_pc(Finished) /\ WF_kind(WentOn)


(***************************************************************************)
(* What the claims speak of.                                               *)
(***************************************************************************)
\* the automaton accepts() was last called on
Target == IF on = -1 THEN ret[1] ELSE args[on]

\* the entry point called has returned and accepts() was called on its result
Answered(entry) == op = entry /\ pc = "done" /\ on = -1

\* every symbol of the input s is a member of the alphabet
Within(alph, s) == \A k \in 1..Len(s) : includes(alph, s[k])

\* s is an input over the alphabet: each symbol is a member of it or, when
\* the alphabet has the wildcard, stands for the wildcard
Over(alph, s) == includes(alph, ANYTHING_ELSE) \/ Within(alph, s)

RECURSIVE SplitAccepted(_, _, _)
\* s = pj ++ ... ++ pk with list[j] accepting pj, ..., list[k] accepting pk
SplitAccepted(list, j, s) ==
  IF j > Len(list) THEN s = <<>>
  ELSE \E n \in 0..Len(s) :
         /\ accepts(list[j], SubSeq(s, 1, n))
         /\ SplitAccepted(list, j + 1, SubSeq(s, n + 1, Len(s)))

RECURSIVE StarAccepted(_, _)
\* s is the concatenation of zero or more inputs that fsm accepts
StarAccepted(fsm, s) ==
  \/ s = <<>>
  \/ \E n \in 1..Len(s) :
       /\ accepts(fsm, SubSeq(s, 1, n))
       /\ StarAccepted(fsm, SubSeq(s, n + 1, Len(s)))

\* C1: concatenate(Fs) accepts s iff s splits into consecutive pieces, the
\* j-th accepted by the j-th automaton of Fs
C1_ConcatenateAcceptsSplits ==
  Answered("concatenate") => (answer <=> SplitAccepted(args, 1, input))

\* C2: multiply(A, n), n >= 1, accepts s iff s is n pieces each accepted by A
C2_MultiplyAcceptsPieces ==
  (Answered("multiply") /\ multiplier >= 1)
    => (answer <=> SplitAccepted(fill(multiplier, args[1]), 1, input))

\* C3: union(Fs) accepts s, an input of symbols of the combined alphabet, iff
\* at least one automaton of Fs accepts s
C3_UnionAcceptsAny ==
  (Answered("union") /\ Within(unifyAlphabets(Alphabets(args)), input))
    => (answer <=> \E k \in 1..Len(args) : accepts(args[k], input))

\* C4: intersection(Fs) accepts s, an input over the combined alphabet, iff
\* every automaton of Fs accepts s (any list Fs, the empty one included)
C4_IntersectionAcceptsAll ==
  (Answered("intersection") /\ Over(unifyAlphabets(Alphabets(args)), input))
    => (answer <=> \A k \in 1..Len(args) : accepts(args[k], input))

\* C5: star(A) accepts s, an input over A's alphabet, iff s is the concatenation of zero or more inputs
\* accepted by A; star(A) accepts [] whatever A is
C5_StarAcceptsRepetitions ==
  /\ (Answered("star") /\ Over(args[1].alphabet, input))
       => (answer <=> StarAccepted(args[1], input))
  /\ (Answered("star") /\ input = <<>>) => answer

\* C6: multiply(A, 0) accepts [] and rejects every non-empty input
C6_MultiplyZeroIsEpsilon ==
  (Answered("multiply") /\ multiplier = 0) => (answer <=> input = <<>>)


\* C7: accepts raises when the alphabet has no wildcard and the input holds a
\* symbol that is not in the alphabet
C7_AcceptsRaisesOnUnknownSymbol ==
  (on # 0 /\ ~includes(Target.alphabet, ANYTHING_ELSE) /\ ~Within(Target.alphabet, input))
    => pc = "threw"

\* a transition target of the table of f that is not one of its states
StrayTarget(f) ==
  \E s \in DOMAIN f.map :
    \E k \in 1..Len(f.map[s]) : ~includes(f.states, f.map[s][k][2])

\* what construction has to reject: a symbol listed twice, an initial state
\* or a declared final state that is no state, a stray transition target
Invalid(f) ==
  \/ \E j, k \in 1..Len(f.alphabet) : j # k /\ f.alphabet[j] = f.alphabet[k]
  \/ ~includes(f.states, f.initial)
  \/ \E k \in 1..Len(f.finals) : ~includes(f.states, f.finals[k])
  \/ StrayTarget(f)

\* C8: constructing a literal automaton fails when its alphabet lists a
\* symbol twice, or its initial state, a declared final state or a transition
\* target is not one of its states: no such automaton comes to exist
C8_ConstructorValidates == \A k \in 1..Len(args) : ~Invalid(args[k])

\* C9: multiply(A, n) with a negative n raises and returns no automaton
C9_MultiplyRejectsNegative ==
  (op = "multiply" /\ multiplier < 0) => (pc = "threw" /\ ret = <<>>)

\* the input with each symbol outside the alphabet replaced by the wildcard
Wild(alph, s) ==
  [k \in 1..Len(s) |-> IF includes(alph, s[k]) THEN s[k] ELSE ANYTHING_ELSE]

\* C10: when the alphabet has the wildcard, a symbol x outside the alphabet
\* is treated like the wildcard: follow(s, x) = follow(s, wildcard) for every
\* state s, and accepts answers the same for an input and for the input with
\* such symbols replaced by the wildcard
C10_UnknownSymbolIsWildcard ==
  (on # 0 /\ includes(Target.alphabet, ANYTHING_ELSE))
    => /\ answer = accepts(Target, Wild(Target.alphabet, input))
       /\ \A k \in 1..Len(Target.states), n \in 1..Len(input) :
            ~includes(Target.alphabet, input[n])
              => follow(Target, Target.states[k], input[n])
                   = follow(Target, Target.states[k], ANYTHING_ELSE)

\* two automata over different alphabets, and an input of two or more
\* symbols that their intersection accepts
C4_Witness ==
  /\ Answered("intersection")
  /\ Len(args) = 2
  /\ args[1].alphabet # args[2].alphabet
  /\ Len(input) >= 2
  /\ answer

\* star(A) accepts an input of several pieces that A itself rejects, for an
\* A whose initial state is not final
C5_Witness ==
  /\ Answered("star")
  /\ ~hasFinalState(args[1], args[1].initial)
  /\ Len(input) >= 2
  /\ ~accepts(args[1], input)
  /\ answer

\* multiply(A, 0) rejects an input that A accepts
C6_Witness ==
  /\ Answered("multiply")
  /\ multiplier = 0
  /\ input # <<>>
  /\ accepts(args[1], input)
  /\ ~answer

\* multiply was called with a negative multiplier and threw
C9_Witness == op = "multiply" /\ multiplier < 0 /\ pc = "threw"


(***************************************************************************)
(* strings()                                                               *)
(***************************************************************************)
\* C11: an enumerator yields in non-decreasing length order: a value yielded
\* before another is no longer than it
C11_YieldsByLength ==
  \A j, k \in 1..Len(yielded) : j < k => Len(yielded[j]) <= Len(yielded[k])

C11_Witness ==
  /\ Len(yielded) >= 3
  /\ Len(yielded[1]) < Len(yielded[2])
  /\ Len(yielded[2]) < Len(yielded[3])

\* the place of a symbol in the alphabet's enumeration order
Place(alph, x) == CHOOSE k \in 1..Len(alph) : alph[k] = x

\* u comes before v, two inputs of one length, in the lexicographic order the
\* alphabet's enumeration order gives
LexBefore(alph, u, v) ==
  \E n \in 1..Len(u) :
    /\ \A m \in 1..(n - 1) : u[m] = v[m]
    /\ Place(alph, u[n]) < Place(alph, v[n])

\* C12: among the yielded values of one length, a value yielded before
\* another comes before it in the lexicographic order of the automaton's
\* alphabet enumeration order
C12_YieldsShortlex ==
  gen # 0 =>
    \A j, k \in 1..Len(yielded) :
      (j < k /\ Len(yielded[j]) = Len(yielded[k]))
        => LexBefore(Gen.alphabet, yielded[j], yielded[k])

\* C13: every value an enumerator yields is an input its automaton accepts
C13_YieldedAreAccepted ==
  gen # 0 => \A k \in 1..Len(yielded) : accepts(Gen, yielded[k])

C13_Witness == gen # 0 /\ Len(yielded) >= 3 /\ Len(yielded[3]) >= 2

RECURSIVE After(_, _, _)
\* the states the inputs of length len over the alphabet lead to from the
\* states S
After(f, S, len) ==
  IF len = 0 THEN S
  ELSE After(f, {follow(f, q[1], f.alphabet[q[2]]) : q \in S \X (1..Len(f.alphabet))}, len - 1)

\* the automaton accepts infinitely many inputs over its alphabet: it accepts
\* one that is at least as long as the automaton has states (oblivion
\* counted) and less than twice as long
Infinite(f) ==
  LET n == Len(f.states) + 1
  IN  \E len \in n..(2 * n - 1) :
        \E q \in After(f, {f.initial}, len) : hasFinalState(f, q)

\* C14: an enumerator returns done after finitely many next() calls iff the
\* language of its automaton is finite: when it is finite a call returns
\* done, when it is infinite no call does
C14_DoneIffFinite ==
  [](gen # 0 => /\ (~Infinite(Gen)) => <>(last = "done")
                /\ (last = "done") => ~Infinite(Gen))

C14_Witness == gen # 0 /\ last = "done" /\ Len(yielded) >= 2

\* C15: the enumerator of an automaton with no transitions yields [] on the
\* first next() and done on the second when the initial state is final
\* (epsilon), and done on the first with no value when it is not (nothing)
C15_EpsilonAndNothing ==
  (gen # 0 /\ Gen.alphabet = <<>> /\ calls >= 1)
    => IF hasFinalState(Gen, Gen.initial)
         THEN /\ yielded = <<<<>>>>
              /\ calls = 1 => last = "value"
              /\ calls >= 2 => last = "done"
         ELSE /\ yielded = <<>>
              /\ last = "done"

C15_Witness == gen = 1 /\ args[1] = EPSILON /\ calls = 2 /\ last = "done"


(***************************************************************************)
(* crawl                                                                   *)
(***************************************************************************)
\* a crawl has just returned the automaton ret[1], and its locals are as it
\* left them
Returned == pc = "done" /\ Len(lookup) > 0 /\ on = 0 /\ gen = 0

Symbols(alph) == {alph[k] : k \in 1..Len(alph)}

RECURSIVE Closure(_, _, _, _)
\* the superstates reachable from those of S by follow over the alphabet
Closure(k, list, alph, S) ==
  LET T == S \cup { crawl_follow(k, list, q[1], q[2])[1] :
                      q \in { r \in S \X Symbols(alph) :
                                crawl_follow(k, list, r[1], r[2]) # Oblivion } }
  IN  IF T = S THEN S ELSE Closure(k, list, alph, T)

\* C17: in the automaton crawl returns, state i has a transition on the
\* symbol x iff follow(superstate i, x) is not oblivion, and there are as many
\* states as distinct superstates reachable from the initial one
C17_SparseAndCounted ==
  Returned =>
    /\ \A i \in 0..(Len(lookup) - 1) : \A x \in Symbols(alphabet) :
         HasOwn(ret[1].map[String(i)], x)
           <=> crawl_follow(kind, fsms, lookup[i + 1], x) # Oblivion
    /\ Len(ret[1].states) = Cardinality(Closure(kind, fsms, alphabet, {lookup[1]}))

\* the place <<i, k>> (state i, k-th symbol) where crawl meets the superstate
\* lookup[j + 1]
Meets(j) ==
  { q \in (0..(Len(lookup) - 1)) \X (1..Len(alphabet)) :
      LET next == crawl_follow(kind, fsms, lookup[q[1] + 1], alphabet[q[2]])
      IN  /\ next # Oblivion
          /\ JSONstringify(kind, fsms, next[1]) = JSONstringify(kind, fsms, lookup[j + 1]) }

\* the place p comes before the place q in the order crawl visits them
Earlier(p, q) == p[1] < q[1] \/ (p[1] = q[1] /\ p[2] < q[2])

\* the first place where crawl meets the superstate lookup[j + 1]
Discovery(j) == CHOOSE p \in Meets(j) : \A q \in Meets(j) : q = p \/ Earlier(p, q)

\* C18: the automaton crawl returns after discovering n superstates has the
\* states 0, ..., n - 1 and the initial state 0, and the k-th superstate
\* discovered is state k: the numbers follow the order of discovery, and a
\* transition into a superstate leads to its number
C18_NumberedByDiscovery ==
  Returned =>
    LET n == Len(lookup)
    IN  /\ Symbols(ret[1].states) = {String(k) : k \in 0..(n - 1)}
        /\ Len(ret[1].states) = n
        /\ ret[1].initial = "0"
        /\ \A k \in 1..(n - 1) : Meets(k) # {}
        /\ \A j, k \in 1..(n - 1) : j < k => Earlier(Discovery(j), Discovery(k))
        /\ \A k \in 0..(n - 1) : \A q \in Meets(k) :
             Get(ret[1].map[String(q[1])], alphabet[q[2]]) = String(k)

C18_Witness ==
  /\ Returned
  /\ Len(lookup) >= 4
  /\ ret[1].states # [k \in 1..Len(lookup) |-> String(k - 1)]

\* every automaton there is: the ones the caller built and the one returned
Automata == {args[k] : k \in 1..Len(args)} \cup {ret[k] : k \in 1..Len(ret)}

\* C20: every automaton, built from a literal table or returned by the
\* algebra, has its initial state, its final states and the targets of its
\* transitions among its states
C20_WellFormed ==
  \A f \in Automata :
    /\ includes(f.states, f.initial)
    /\ \A k \in 1..Len(f.finals) : includes(f.states, f.finals[k])
    /\ \A q \in DOMAIN f.map : \A k \in 1..Len(f.map[q]) : includes(f.states, f.map[q][k][2])

\* C19: a crawl whose follow reaches finitely many superstates returns: every
\* crawl the algebra starts and every crawl of an automaton's own methods
\* does.  A crawl whose follow never repeats a superstate never returns: its
\* lookup list always holds a superstate the loop has not come to
C19_CrawlTerminatesIffFinite ==
  /\ []((pc = "crawl" /\ kind # "evil") => <>(pc = "done"))
  /\ [](kind = "evil" => (pc = "crawl" /\ state < Len(lookup)))

C19_Witness == Returned /\ op = "star" /\ Len(lookup) >= 3

(***************************************************************************)
(* Inputs and results as objects                                           *)
(***************************************************************************)
\* the entry points of the algebra
Algebra == {"union", "intersection", "concatenate", "multiply", "star"}

\* a step of a call of the algebra: its start, a pass of its crawl's loop,
\* the step from star's crawl to its union, its return or its throw
AlgebraStep == op' \in Algebra /\ (pc' # pc \/ state' # state \/ kind' # kind)

\* C21: union, intersection, concatenate, multiply and star read their inputs
\* and write none of them: no step of a call changes an input automaton's
\* alphabet, states, initial state, finals or transition table (or which
\* object it is), nor the answer of accepts on an input automaton
C21_InputsReadOnly ==
  [][AlgebraStep =>
       /\ Len(args') = Len(args)
       /\ \A k \in 1..Len(args) :
            /\ args'[k].alphabet = args[k].alphabet
            /\ args'[k].states = args[k].states
            /\ args'[k].initial = args[k].initial
            /\ args'[k].finals = args[k].finals
            /\ args'[k].map = args[k].map
            /\ args'[k].ref = args[k].ref
            /\ \A in \in ScenarioInputs :
                 accepts(args'[k], in) = accepts(args[k], in)]_vars

\* a union of two automata with different alphabets has returned, and the
\* inputs are the automata the caller built
C21_Witness ==
  /\ pc = "done" /\ op = "union"
  /\ Len(args) = 2
  /\ args[1].alphabet # args[2].alphabet
  /\ \A k \in 1..2 : \E t \in Pool : args[k] = Build(k, t)

\* C22: the automaton an entry point of the algebra returns is a new object:
\* it is none of the inputs, and it is no object that exists apart from the
\* call (which another call would return as well)
C22_ResultIsFresh ==
  (pc = "done" /\ op \in Algebra)
    => /\ \A k \in 1..Len(args) : ret[1].ref # args[k].ref
       /\ ret[1].ref \notin {NothingRef, EpsilonRef}

(***************************************************************************)
(* follow                                                                  *)
(***************************************************************************)
\* what the transition table maps (st, symbol) to, going by the entries
\* of the row: the entry for the symbol, else the entry for the wildcard,
\* else oblivion
OwnTarget(fsm, st, symbol) ==
  IF st \in DOMAIN fsm.map /\ HasOwn(fsm.map[st], symbol)
    THEN Get(fsm.map[st], symbol)
    ELSE IF st \in DOMAIN fsm.map /\ HasOwn(fsm.map[st], ANYTHING_ELSE)
      THEN Get(fsm.map[st], ANYTHING_ELSE)
      ELSE OBLIVION_STATE

\* the states follow is asked about: the states of the automaton, oblivion
\* and an identifier that is no state
Asked(fsm) == Symbols(fsm.states) \cup {OBLIVION_STATE, "none"}

\* C23: follow(state, symbol) raises for no state and no symbol, and returns
\* the mapped target when a mapping (of the symbol or of the wildcard)
\* applies and oblivion otherwise
C23_FollowNeverRaises ==
  on # 0 =>
    /\ pc # "threw"
    /\ \A s \in Asked(Target), n \in 1..Len(input) :
         follow(Target, s, input[n]) = OwnTarget(Target, s, input[n])

\* what union([]) returned is an Fsm object
IsFsm(x) == DOMAIN x = {"ref", "alphabet", "states", "finals", "map", "initial"}

\* C24: union of the empty list returns null, no automaton
C24_EmptyUnionIsNull ==
  (op = "union" /\ Len(args) = 0 /\ pc = "done") => ~IsFsm(ret[1])

\* C25: follow of concatenate loses no configuration: for a superstate
\* current, a symbol x and a pair (i, s) of current whose machine goes to
\* next, not oblivion, on x, every pair of _connectAll(fsms, i, next) is in
\* follow(current, x), the pair (i + 1, initial of machine i + 1) for a final
\* next among them
C25_FollowLosesNothing ==
  (Returned /\ kind = "concatenate") =>
    \A j \in 1..Len(lookup) : \A x \in Symbols(alphabet) :
      \A k \in 1..Len(lookup[j]) :
        LET i == lookup[j][k].i
            nxt == follow(fsms[i], lookup[j][k].substate, x)
            got == concatenate_follow(fsms, lookup[j], x)
        IN  nxt # OBLIVION_STATE =>
              /\ got # Oblivion
              /\ \A q \in 1..Len(_connectAll(fsms, i, nxt)) :
                   includes(got[1], _connectAll(fsms, i, nxt)[q])

\* C26: every superstate a crawl of concatenate discovers is duplicate-free:
\* no two of its entries have the same machine index and the same substate
C26_SuperstatesDuplicateFree ==
  kind = "concatenate" =>
    \A j \in 1..Len(lookup) :
      \A k, q \in 1..Len(lookup[j]) : lookup[j][k] = lookup[j][q] => k = q

\* C28: in a state whose row declares the wildcard, follow on a symbol the
\* row does not map returns the target of the wildcard; follow returns
\* oblivion only where the row maps neither the symbol nor the wildcard
C28_WildcardPerRow ==
  on # 0 =>
    \A s \in DOMAIN Target.map : \A n \in 1..Len(input) :
      LET row == Target.map[s]
          x == input[n]
      IN  /\ (HasOwn(row, ANYTHING_ELSE) /\ ~HasOwn(row, x))
               => follow(Target, s, x) = Get(row, ANYTHING_ELSE)
          /\ follow(Target, s, x) = OBLIVION_STATE
               => (~HasOwn(row, x) /\ ~HasOwn(row, ANYTHING_ELSE))

(***************************************************************************)
(* oblivion                                                                *)
(***************************************************************************)
\* the state f is in after the first n symbols of the input
After_n(f, n) == FollowAll(f, f.initial, SubSeq(input, 1, n), 1)

\* f has fallen into oblivion on a prefix of the input
Fallen(f) == \E n \in 0..Len(input) : After_n(f, n) = OBLIVION_STATE

\* the superstate has no pair for some automaton of the list
Lacks(list, superstate) ==
  \E j \in 1..Len(list) :
    \A k \in 1..Len(superstate) : list[superstate[k].fsm].ref # list[j].ref

\* C27: once an input automaton has fallen into oblivion on a prefix of the
\* input, intersection(Fs) rejects the input (and so every extension); no
\* state whose pair list lacks a pair for an automaton of Fs is final
C27_IntersectionDiesWithOne ==
  /\ (Answered("intersection") /\ \E k \in 1..Len(args) : Fallen(args[k])) => ~answer
  /\ (Returned /\ op = "intersection") =>
       \A j \in 1..Len(lookup) :
         Lacks(fsms, lookup[j]) => ~hasFinalState(ret[1], String(j - 1))

\* one automaton of two has fallen into oblivion on an input that the other
\* accepts, and the intersection rejects the input
C27_Witness ==
  /\ Answered("intersection") /\ Len(args) = 2
  /\ Len(input) >= 2
  /\ \E k \in 1..2 : Fallen(args[k])
  /\ \E k \in 1..2 : accepts(args[k], input)
  /\ ~answer

Foreign(f, x) == ~includes(f.alphabet, x) /\ ~includes(f.alphabet, ANYTHING_ELSE)

AllSymbols(list) == UNION {Symbols(list[k].alphabet) : k \in 1..Len(list)}

\* C31: the alphabet of what union, intersection and concatenate return is
\* the set union of the alphabets of their inputs, and the alphabet of
\* star(A) is the alphabet of A, whether or not every symbol labels a
\* transition of the result
C31_ResultAlphabet ==
  /\ (pc = "done" /\ op \in {"union", "intersection", "concatenate"})
       => Symbols(ret[1].alphabet) = AllSymbols(args)
  /\ (pc = "done" /\ op = "star")
       => Symbols(ret[1].alphabet) = Symbols(args[1].alphabet)

\* C32: multiply(A, 0) returns an automaton over the alphabet of A
C32_MultiplyZeroAlphabet ==
  (pc = "done" /\ op = "multiply" /\ multiplier = 0)
    => Symbols(ret[1].alphabet) = Symbols(args[1].alphabet)

(***************************************************************************)
(* live states                                                             *)
(***************************************************************************)
\* the targets of the transitions of the row of the state s
Targets(f, s) ==
  IF s \in DOMAIN f.map THEN {f.map[s][k][2] : k \in 1..Len(f.map[s])} ELSE {}

RECURSIVE Reach(_, _)
\* the states reachable from those of S by zero or more transitions
Reach(f, S) ==
  LET T == S \cup UNION {Targets(f, s) : s \in S}
  IN  IF T = S THEN S ELSE Reach(f, T)

\* some final state is reachable from s by zero or more transitions
Live(f, s) == \E k \in 1..Len(f.finals) : f.finals[k] \in Reach(f, {s})

\* the automaton a of the tests: states 0, 1, ob and the final state 1
TestA ==
  Fsm(0, <<"1">>,
      [s \in {"0", "1", "ob"} |->
         IF s = "0" THEN <<<<"a", "1">>, <<"b", "ob">>>> ELSE <<<<"a", "ob">>, <<"b", "ob">>>>],
      "0")

\* the caller holds its automata and no call is under way
Quiet == pc \in {"idle", "done"} /\ on = 0 /\ gen = 0

\* C33: the live states of an automaton are the states from which a final
\* state is reachable by zero or more transitions: every final state is
\* live, every state with a path to a final state is live, and no other
\* state, nor oblivion, is live; for the automaton a of the tests they are
\* 0 and 1
C33_LiveStates ==
  Quiet =>
    /\ \A f \in Automata :
         /\ _getLiveStates(f)
              = {s \in Symbols(f.states) \cup Symbols(f.finals) : Live(f, s)}
         /\ \A k \in 1..Len(f.finals) : _hasLiveState(f, f.finals[k])
         /\ ~_hasLiveState(f, OBLIVION_STATE)
    /\ _getLiveStates(TestA) = {"0", "1"}

\* an automaton with a live state two transitions away from its final state
\* and a state that is not live
C33_Witness ==
  /\ Quiet
  /\ \E f \in Automata :
       /\ \E s \in Symbols(f.states) : ~_hasLiveState(f, s)
       /\ \E s \in Symbols(f.states) :
            /\ _hasLiveState(f, s)
            /\ ~hasFinalState(f, s)
            /\ \A t \in Targets(f, s) : ~hasFinalState(f, t)

(***************************************************************************)
(* the enumerator's list                                                   *)
(***************************************************************************)
\* C34: at every point of an enumeration the list starts with the entry
\* ([], initial), and every other entry holds a live state, the state that
\* following its string from the initial state leads to: a successor that
\* is not live, oblivion included, is never pushed
C34_FrontierIsLive ==
  gen # 0 =>
    /\ strings[1] = [cstring |-> <<>>, cstate |-> Gen.initial]
    /\ \A k \in 2..Len(strings) :
         /\ Live(Gen, strings[k].cstate)
         /\ strings[k].cstate # OBLIVION_STATE
         /\ strings[k].cstate = FollowAll(Gen, Gen.initial, strings[k].cstring, 1)

\* an enumerator of an automaton with a state that is not live, after two
\* calls of next(), with three or more entries in its list
C34_Witness ==
  /\ gen # 0
  /\ calls >= 2
  /\ Len(strings) >= 3
  /\ \E s \in Symbols(Gen.states) : s \in DOMAIN Gen.map /\ ~Live(Gen, s)

(***************************************************************************)
(* equality of superstates                                                 *)
(***************************************************************************)
\* the value of an Fsm object: its fields, whichever object holds them
Value(fsm) ==
  [alphabet |-> fsm.alphabet, states |-> fsm.states, finals |-> fsm.finals,
   map |-> fsm.map, initial |-> fsm.initial]

\* the value of a superstate, compared component by component: a pair of
\* parallel holds an automaton
Deep(k, list, x) ==
  IF k \in {"union", "intersection"}
    THEN [q \in 1..Len(x) |-> [fsm |-> Value(list[x[q].fsm]), substate |-> x[q].substate]]
    ELSE x

\* C35: in a crawl two superstates get one state id iff they are
\* structurally equal: the lookup list holds no two structurally equal
\* superstates, and the superstate a follow() returns is given the id of a
\* superstate of the list that is structurally equal to it
C35_StructuralEquality ==
  Returned =>
    /\ \A j, k \in 1..Len(lookup) :
         Deep(kind, fsms, lookup[j]) = Deep(kind, fsms, lookup[k]) => j = k
    /\ \A j \in 1..Len(lookup) : \A x \in Symbols(alphabet) :
         LET got == crawl_follow(kind, fsms, lookup[j], x)
         IN  got # Oblivion =>
               LET at == findIndex(kind, fsms, lookup, got[1])
               IN  /\ at # 0
                   /\ Deep(kind, fsms, lookup[at]) = Deep(kind, fsms, got[1])

(***************************************************************************)
(* what an enumerator yields                                               *)
(***************************************************************************)
\* the enumerator is past the inputs of length n: it has returned done, or
\* it has yielded a value longer than n (values come in order of length)
Past(n) ==
  \/ last = "done"
  \/ \E k \in 1..Len(yielded) : Len(yielded[k]) > n

\* C36: every input over the alphabet that the automaton accepts is yielded
\* after finitely many calls of next(), those accepted through the wildcard
\* of a row included: once the enumerator is past the length of such an
\* input, the input is among the values yielded
C36_YieldsEveryAccepted ==
  gen # 0 =>
    \A s \in Inputs :
      (Within(Gen.alphabet, s) /\ accepts(Gen, s) /\ Past(Len(s)))
        => \E k \in 1..Len(yielded) : yielded[k] = s

\* C37: every call of next() returns after finitely many passes of its loop,
\* with a value or with done, whatever the automaton (an infinite language,
\* cycles among states that are not live): a call that returns done has come
\* to the end of the list, a call that returns a value has stopped at an
\* entry of the list whose state is final and returns its string
C37_NextReturns ==
  (gen # 0 /\ calls > 0) =>
    /\ last \in {"value", "done"}
    /\ strings_i >= 0
    /\ last = "done" => strings_i >= Len(strings)
    /\ last = "value" =>
         /\ strings_i < Len(strings)
         /\ hasFinalState(Gen, strings[strings_i + 1].cstate)
         /\ yielded[Len(yielded)] = strings[strings_i + 1].cstring

\* an enumerator of an automaton with an infinite language and a cycle
\* among states that are not live, after MaxNext calls that returned values
C37_Witness ==
  /\ gen # 0
  /\ calls = MaxNext
  /\ Len(yielded) = MaxNext
  /\ \E s \in Symbols(Gen.states) : ~Live(Gen, s) /\ s \in Targets(Gen, s)

(***************************************************************************)
(* Termination of the algebra's crawls                                     *)
(***************************************************************************)
RECURSIVE ListCap(_, _)
\* a length no superstate of concatenate exceeds, for the machines up to the
\* j-th: a follow pushes for a machine one entry per substate it can be in
\* (its states and the value of an inherited property) and, jumping from an
\* entry of an earlier machine, at most one entry more per such entry
ListCap(list, j) ==
  IF j = 0 THEN 0 ELSE (Len(list[j].states) + 1) + 2 * ListCap(list, j - 1)

\* a length no superstate of the crawl under way exceeds
Cap ==
  CASE kind \in {"union", "intersection"} -> Len(fsms)
    [] kind = "concatenate" -> ListCap(fsms, Len(fsms))
    [] OTHER -> Len(fsms[1].states) + 1

\* C38: every crawl that union, intersection, concatenate, multiply (n >= 1)
\* and star run returns, and no superstate on its lookup list is longer than
\* a bound the machines fix, repeated entries or not
C38_AlgebraTerminates ==
  /\ []((pc = "crawl" /\ op \in Algebra) => <>(pc = "done"))
  /\ []((op \in Algebra /\ Len(lookup) > 0)
          => \A j \in 1..Len(lookup) : Len(lookup[j]) <= Cap)

C38_Witness ==
  /\ pc = "done" /\ op = "multiply" /\ multiplier >= 1
  /\ \E j \in 1..Len(lookup) :
       \E k, q \in 1..Len(lookup[j]) : k # q /\ lookup[j][k] = lookup[j][q]

(***************************************************************************)
(* An enumerator that is done                                              *)
(***************************************************************************)
\* C39: done is sticky: a next() call on an enumerator whose last call
\* returned done returns done again, yields no value and leaves the list of
\* the enumerator as it was
C39_DoneIsSticky ==
  [][(gen # 0 /\ last = "done" /\ calls' = calls + 1)
       => (last' = "done" /\ yielded' = yielded /\ strings' = strings)]_vars

C39_Witness ==
  /\ gen # 0 /\ last = "done"
  /\ strings_i > Len(strings)
  /\ Len(yielded) >= 2

(***************************************************************************)
(* Two enumerators of one automaton                                        *)
(***************************************************************************)
RECURSIVE Alone(_, _)
\* what an enumerator of the automaton f has yielded and what its last call
\* returned after n calls of next(), when it is the only enumerator there is
Alone(f, n) ==
  IF n = 0
    THEN [strings |-> strings_initial(f), i |-> -1, yielded |-> <<>>, last |-> "none"]
    ELSE LET e == Alone(f, n - 1)
             r == strings_next(f, e.strings, e.i)
         IN  [strings |-> r.strings, i |-> r.i,
              yielded |-> IF r.returned /\ ~r.done THEN Append(e.yielded, r.value) ELSE e.yielded,
              last |-> IF ~r.returned THEN "running" ELSE IF r.done THEN "done" ELSE "value"]

====
